---- MODULE Spec2Model ----
(***************************************************************************)
(* Model of tools/generate_vqa_dataset.py: the text normalizer (norm), the *)
(* tool-list summarizer (short_tools_text), the QA-pair builder            *)
(* (build_qa_pairs) and the load / assemble / write pipeline (main).       *)
(*                                                                         *)
(* Python strings are sequences of one-character strings, so that          *)
(* replace, strip, split, substring search and f-string formatting are     *)
(* computed character by character.  A character that has no literal here  *)
(* is written as its Python escape ("\\x0b", "\\ud800").  JSON values read   *)
(* from the metadata files are tagged records; Absent stands for a key the *)
(* dict lacks.                                                             *)
(***************************************************************************)
EXTENDS Integers, Sequences, FiniteSets, TLC

VARIABLES
  pc,          \* position of the run: main's phase, or call/return of a function
  candidates,  \* main: sorted list of matched paths
  fs,          \* contents of the candidates read so far, in reading order
  fi,          \* main: position of the load loop in candidates
  records,     \* main: merged records
  ri,          \* main: position of the assembly loop in records
  out,         \* main: the OrderedDict, a sequence of [key, value] in insertion order
  artifact,    \* vqa_dataset.json: the documents written to it, in order
  warnings,    \* paths for which "Warning: failed to read" was printed
  arg,         \* argument of the function under study
  ret          \* its result

vars == <<pc, candidates, fs, fi, records, ri, out, artifact, warnings, arg, ret>>

(***************************************************************************)
(* Bounds of the model.                                                    *)
(***************************************************************************)
MaxToolsLen == 5      \* longest tool list given to short_tools_text
MaxBuildTools == 2    \* longest tool list given to build_qa_pairs
MaxWords == 13        \* most words in a ground-truth task name
MaxRecords == 3       \* most records over all files of a run

(***************************************************************************)
(* JSON / Python values.                                                   *)
(***************************************************************************)
Absent == [t |-> "absent"]
Null == [t |-> "null"]
Num(n) == [t |-> "int", v |-> n]
Str(s) == [t |-> "str", v |-> s]
List(l) == [t |-> "list", v |-> l]

\* Python truth value of a JSON value (used by `x or default` and `if tools:`)
Truthy(x) ==
  CASE x.t = "null" -> FALSE
    [] x.t = "int" -> x.v # 0
    [] x.t = "str" -> x.v # <<>>
    [] x.t = "list" -> x.v # <<>>

\* x or d
Or(x, d) == IF Truthy(x) THEN x ELSE d

\* dict.get(key, default): entry is a record of values, Absent for a missing key
Get(entry, key, default) == IF entry[key] = Absent THEN default ELSE entry[key]

(***************************************************************************)
(* Character-level string operations.                                      *)
(***************************************************************************)
\* the characters for which str.isspace is true: strip and split use them
WHITESPACE ==
  {" ", "\t", "\n", "\r", "\f", "\\x0b", "\\x1c", "\\x1d", "\\x1e", "\\x1f", "\\x85",
   "\\xa0", "\\u1680", "\\u2000", "\\u2001", "\\u2002", "\\u2003", "\\u2004",
   "\\u2005", "\\u2006", "\\u2007", "\\u2008", "\\u2009", "\\u200a", "\\u2028",
   "\\u2029", "\\u202f", "\\u205f", "\\u3000"}

IsSpace(c) == c \in WHITESPACE

HEX == <<"0", "1", "2", "3", "4", "5", "6", "7", "8", "9", "a", "b", "c", "d", "e", "f">>

\* lone surrogates, "\\ud800" .. "\\udfff": json.load accepts them, UTF-8
\* cannot encode them
SURROGATES ==
  {"\\ud" \o HEX[a] \o HEX[b] \o HEX[c] : a \in 9..16, b \in 1..16, c \in 1..16}

\* s.encode("utf-8") succeeds
Encodable(s) == \A k \in 1..Len(s) : s[k] \notin SURROGATES

\* s.replace("_", " ")
ReplaceUnderscore(s) == [k \in 1..Len(s) |-> IF s[k] = "_" THEN " " ELSE s[k]]

\* s.strip()
strip(s) ==
  LET keep == {k \in 1..Len(s) : ~IsSpace(s[k])}
  IN IF keep = {} THEN <<>>
     ELSE LET lo == CHOOSE k \in keep : \A m \in keep : k <= m
              hi == CHOOSE k \in keep : \A m \in keep : k >= m
          IN SubSeq(s, lo, hi)

\* len(s.split()): the number of maximal runs of non-whitespace characters
WordCount(s) ==
  Cardinality({k \in 1..Len(s) : ~IsSpace(s[k]) /\ (k = 1 \/ IsSpace(s[k - 1]))})

\* k in t, for strings: k occurs in t as a contiguous substring
Contains(t, k) ==
  \E p \in 1..(Len(t) - Len(k) + 1) : SubSeq(t, p, p + Len(k) - 1) = k

\* x in seq
InSeq(x, seq) == \E k \in 1..Len(seq) : seq[k] = x

\* decimal digits of a natural number, as Python's str(int) writes them
Digit(d) == <<"0", "1", "2", "3", "4", "5", "6", "7", "8", "9">>[d + 1]

RECURSIVE NatToStr(_)
NatToStr(n) == IF n < 10 THEN <<Digit(n)>> ELSE NatToStr(n \div 10) \o <<Digit(n % 10)>>

\* f"{x}" for a str or an int
Format(x) ==
  CASE x.t = "str" -> x.v
    [] x.t = "int" -> IF x.v < 0 THEN <<"-">> \o NatToStr(-x.v) ELSE NatToStr(x.v)

\* "Which instruments are visible in this clip while performing "
Q1_PREFIX ==
  <<"W", "h", "i", "c", "h", " ", "i", "n", "s", "t", "r", "u", "m", "e", "n", "t", "s",
     " ", "a", "r", "e", " ", "v", "i", "s", "i", "b", "l", "e", " ", "i", "n", " ", "t",
     "h", "i", "s", " ", "c", "l", "i", "p", " ", "w", "h", "i", "l", "e", " ", "p", "e",
     "r", "f", "o", "r", "m", "i", "n", "g", " ">>

\* "Which instruments are visible in this surgical training video segment?"
Q1_FALLBACK ==
  <<"W", "h", "i", "c", "h", " ", "i", "n", "s", "t", "r", "u", "m", "e", "n", "t", "s",
     " ", "a", "r", "e", " ", "v", "i", "s", "i", "b", "l", "e", " ", "i", "n", " ", "t",
     "h", "i", "s", " ", "s", "u", "r", "g", "i", "c", "a", "l", " ", "t", "r", "a", "i",
     "n", "i", "n", "g", " ", "v", "i", "d", "e", "o", " ", "s", "e", "g", "m", "e", "n",
     "t", "?">>

\* "Are any robotic instruments listed for this segment in the detected objects?"
Q1_NO_TOOLS ==
  <<"A", "r", "e", " ", "a", "n", "y", " ", "r", "o", "b", "o", "t", "i", "c", " ", "i",
     "n", "s", "t", "r", "u", "m", "e", "n", "t", "s", " ", "l", "i", "s", "t", "e", "d",
     " ", "f", "o", "r", " ", "t", "h", "i", "s", " ", "s", "e", "g", "m", "e", "n", "t",
     " ", "i", "n", " ", "t", "h", "e", " ", "d", "e", "t", "e", "c", "t", "e", "d", " ",
     "o", "b", "j", "e", "c", "t", "s", "?">>

\* "Includes "
A1_INCLUDES ==
  <<"I", "n", "c", "l", "u", "d", "e", "s", " ">>

\* "Visible: "
A1_VISIBLE ==
  <<"V", "i", "s", "i", "b", "l", "e", ":", " ">>

\* "Present: "
A1_PRESENT ==
  <<"P", "r", "e", "s", "e", "n", "t", ":", " ">>

\* "Tools include "
A1_TOOLS_INCLUDE ==
  <<"T", "o", "o", "l", "s", " ", "i", "n", "c", "l", "u", "d", "e", " ">>

\* "Seen here: "
A1_SEEN_HERE ==
  <<"S", "e", "e", "n", " ", "h", "e", "r", "e", ":", " ">>

\* "No, no instruments listed."
A1_NONE_1 ==
  <<"N", "o", ",", " ", "n", "o", " ", "i", "n", "s", "t", "r", "u", "m", "e", "n", "t",
     "s", " ", "l", "i", "s", "t", "e", "d", ".">>

\* "No tools are detected."
A1_NONE_2 ==
  <<"N", "o", " ", "t", "o", "o", "l", "s", " ", "a", "r", "e", " ", "d", "e", "t", "e",
     "c", "t", "e", "d", ".">>

\* "None listed in objects."
A1_NONE_3 ==
  <<"N", "o", "n", "e", " ", "l", "i", "s", "t", "e", "d", " ", "i", "n", " ", "o", "b",
     "j", "e", "c", "t", "s", ".">>

\* "No, instruments not provided."
A1_NONE_4 ==
  <<"N", "o", ",", " ", "i", "n", "s", "t", "r", "u", "m", "e", "n", "t", "s", " ", "n",
     "o", "t", " ", "p", "r", "o", "v", "i", "d", "e", "d", ".">>

\* "No detected instruments."
A1_NONE_5 ==
  <<"N", "o", " ", "d", "e", "t", "e", "c", "t", "e", "d", " ", "i", "n", "s", "t", "r",
     "u", "m", "e", "n", "t", "s", ".">>

\* "Is an energy device such as monopolar scissors or bipolar forceps being used here?"
Q2 ==
  <<"I", "s", " ", "a", "n", " ", "e", "n", "e", "r", "g", "y", " ", "d", "e", "v", "i",
     "c", "e", " ", "s", "u", "c", "h", " ", "a", "s", " ", "m", "o", "n", "o", "p", "o",
     "l", "a", "r", " ", "s", "c", "i", "s", "s", "o", "r", "s", " ", "o", "r", " ", "b",
     "i", "p", "o", "l", "a", "r", " ", "f", "o", "r", "c", "e", "p", "s", " ", "b", "e",
     "i", "n", "g", " ", "u", "s", "e", "d", " ", "h", "e", "r", "e", "?">>

\* "Yes, energy device in use."
A2_YES_1 ==
  <<"Y", "e", "s", ",", " ", "e", "n", "e", "r", "g", "y", " ", "d", "e", "v", "i", "c",
     "e", " ", "i", "n", " ", "u", "s", "e", ".">>

\* "Yes, monopolar/bipolar used."
A2_YES_2 ==
  <<"Y", "e", "s", ",", " ", "m", "o", "n", "o", "p", "o", "l", "a", "r", "/", "b", "i",
     "p", "o", "l", "a", "r", " ", "u", "s", "e", "d", ".">>

\* "Affirmative, energy is used."
A2_YES_3 ==
  <<"A", "f", "f", "i", "r", "m", "a", "t", "i", "v", "e", ",", " ", "e", "n", "e", "r",
     "g", "y", " ", "i", "s", " ", "u", "s", "e", "d", ".">>

\* "Yes, energy instruments present."
A2_YES_4 ==
  <<"Y", "e", "s", ",", " ", "e", "n", "e", "r", "g", "y", " ", "i", "n", "s", "t", "r",
     "u", "m", "e", "n", "t", "s", " ", "p", "r", "e", "s", "e", "n", "t", ".">>

\* "Yes, energy applied here."
A2_YES_5 ==
  <<"Y", "e", "s", ",", " ", "e", "n", "e", "r", "g", "y", " ", "a", "p", "p", "l", "i",
     "e", "d", " ", "h", "e", "r", "e", ".">>

\* "No, no energy device used."
A2_NO_1 ==
  <<"N", "o", ",", " ", "n", "o", " ", "e", "n", "e", "r", "g", "y", " ", "d", "e", "v",
     "i", "c", "e", " ", "u", "s", "e", "d", ".">>

\* "Negative, no energy here."
A2_NO_2 ==
  <<"N", "e", "g", "a", "t", "i", "v", "e", ",", " ", "n", "o", " ", "e", "n", "e", "r",
     "g", "y", " ", "h", "e", "r", "e", ".">>

\* "No energy instruments present."
A2_NO_3 ==
  <<"N", "o", " ", "e", "n", "e", "r", "g", "y", " ", "i", "n", "s", "t", "r", "u", "m",
     "e", "n", "t", "s", " ", "p", "r", "e", "s", "e", "n", "t", ".">>

\* "No, energy not applied."
A2_NO_4 ==
  <<"N", "o", ",", " ", "e", "n", "e", "r", "g", "y", " ", "n", "o", "t", " ", "a", "p",
     "p", "l", "i", "e", "d", ".">>

\* "No, none used here."
A2_NO_5 ==
  <<"N", "o", ",", " ", "n", "o", "n", "e", " ", "u", "s", "e", "d", " ", "h", "e", "r",
     "e", ".">>

\* "According to the ground truth label, what training objective is being practiced?"
Q3 ==
  <<"A", "c", "c", "o", "r", "d", "i", "n", "g", " ", "t", "o", " ", "t", "h", "e", " ",
     "g", "r", "o", "u", "n", "d", " ", "t", "r", "u", "t", "h", " ", "l", "a", "b", "e",
     "l", ",", " ", "w", "h", "a", "t", " ", "t", "r", "a", "i", "n", "i", "n", "g", " ",
     "o", "b", "j", "e", "c", "t", "i", "v", "e", " ", "i", "s", " ", "b", "e", "i", "n",
     "g", " ", "p", "r", "a", "c", "t", "i", "c", "e", "d", "?">>

\* "the labeled task"
GT_DEFAULT ==
  <<"t", "h", "e", " ", "l", "a", "b", "e", "l", "e", "d", " ", "t", "a", "s", "k">>

\* " task."
A3_TASK ==
  <<" ", "t", "a", "s", "k", ".">>

\* "Training focus: "
A3_FOCUS ==
  <<"T", "r", "a", "i", "n", "i", "n", "g", " ", "f", "o", "c", "u", "s", ":", " ">>

\* " is practiced."
A3_PRACTICED ==
  <<" ", "i", "s", " ", "p", "r", "a", "c", "t", "i", "c", "e", "d", ".">>

\* "Objective: "
A3_OBJECTIVE ==
  <<"O", "b", "j", "e", "c", "t", "i", "v", "e", ":", " ">>

\* "monopolar"
K_MONOPOLAR ==
  <<"m", "o", "n", "o", "p", "o", "l", "a", "r">>

\* "bipolar"
K_BIPOLAR ==
  <<"b", "i", "p", "o", "l", "a", "r">>

\* "vessel_sealer"
K_VESSEL_SEALER ==
  <<"v", "e", "s", "s", "e", "l", "_", "s", "e", "a", "l", "e", "r">>

\* "permanent_cautery_hook_spatula"
K_CAUTERY ==
  <<"p", "e", "r", "m", "a", "n", "e", "n", "t", "_", "c", "a", "u", "t", "e", "r", "y",
     "_", "h", "o", "o", "k", "_", "s", "p", "a", "t", "u", "l", "a">>

\* "force_bipolar"
K_FORCE_BIPOLAR ==
  <<"f", "o", "r", "c", "e", "_", "b", "i", "p", "o", "l", "a", "r">>

\* "bipolar_forceps"
T_BIPOLAR_FORCEPS ==
  <<"b", "i", "p", "o", "l", "a", "r", "_", "f", "o", "r", "c", "e", "p", "s">>

\* "needle_driver"
T_NEEDLE_DRIVER ==
  <<"n", "e", "e", "d", "l", "e", "_", "d", "r", "i", "v", "e", "r">>

\* "monopolar_scissors"
T_MONOPOLAR_SCISSORS ==
  <<"m", "o", "n", "o", "p", "o", "l", "a", "r", "_", "s", "c", "i", "s", "s", "o", "r",
     "s">>

\* "vessel sealer"
T_VESSEL_SEALER_SPACE ==
  <<"v", "e", "s", "s", "e", "l", " ", "s", "e", "a", "l", "e", "r">>

\* "Bipolar"
T_BIPOLAR_UPPER ==
  <<"B", "i", "p", "o", "l", "a", "r">>

\* "clip_applier"
T_CLIP_APPLIER ==
  <<"c", "l", "i", "p", "_", "a", "p", "p", "l", "i", "e", "r">>

(***************************************************************************)
(* A call either returns a value or raises: [raised, value].               *)
(***************************************************************************)
Return(x) == [raised |-> FALSE, value |-> x]
Raise == [raised |-> TRUE, value |-> <<>>]

(***************************************************************************)
(* norm (lines 7-8): (text or "").replace("_", " ").  A truthy value that  *)
(* is not a str has no replace method and raises AttributeError.           *)
(***************************************************************************)
norm(text) ==
  LET s == Or(text, Str(<<>>))
  IN IF s.t # "str" THEN Raise ELSE Return(ReplaceUnderscore(s.v))

(***************************************************************************)
(* Iterating a Python value with `for t in tools`: a list yields its       *)
(* elements, a str its characters, an int raises TypeError.                *)
(***************************************************************************)
Iterable(x) == x.t \in {"list", "str"}

Items(x) ==
  IF x.t = "str" THEN [k \in 1..Len(x.v) |-> Str(<<x.v[k]>>)] ELSE x.v

(***************************************************************************)
(* short_tools_text (lines 11-27).                                         *)
(***************************************************************************)
\* line 19: the loop stops once this many names are collected
ShortListCap == 3

\* variant: the seen set is not consulted
KeepNameNoSeen(t_clean, seen) == t_clean # <<>>

\* line 16: keep t_clean when it is non-empty and not yet seen
KeepName(t_clean, seen) == t_clean # <<>> /\ t_clean \notin seen

\* lines 14-20: the for loop from position k on; [raised, value |-> clean]
RECURSIVE CollectClean(_, _, _, _)
CollectClean(ts, k, clean, seen) ==
  IF k > Len(ts) THEN Return(clean)
  ELSE LET n == norm(ts[k])
       IN IF n.raised THEN Raise
          ELSE LET t_clean == strip(n.value)
                   keep == KeepName(t_clean, seen)
                   clean2 == IF keep THEN Append(clean, t_clean) ELSE clean
                   seen2 == IF keep THEN seen \cup {t_clean} ELSE seen
               IN IF Len(clean2) >= ShortListCap THEN Return(clean2)
                  ELSE CollectClean(ts, k + 1, clean2, seen2)

COMMA == <<",", " ">>
AND == <<" ", "a", "n", "d", " ">>
COMMA_AND == <<",", " ", "a", "n", "d", " ">>

\* lines 21-27: the join of the collected names
JoinClean(clean) ==
  IF clean = <<>> THEN <<>>
  ELSE IF Len(clean) = 1 THEN clean[1]
  ELSE IF Len(clean) = 2 THEN clean[1] \o AND \o clean[2]
  ELSE clean[1] \o COMMA \o clean[2] \o COMMA_AND \o clean[3]

short_tools_text(tools) ==
  IF ~Iterable(tools) THEN Raise
  ELSE LET c == CollectClean(Items(tools), 1, <<>>, {})
       IN IF c.raised THEN Raise ELSE Return(JoinClean(c.value))

(***************************************************************************)
(* build_qa_pairs (lines 30-98).                                           *)
(***************************************************************************)
\* line 35-37: the substrings that mark an energy device
ENERGY_KEYS == <<K_MONOPOLAR, K_BIPOLAR, K_VESSEL_SEALER, K_CAUTERY, K_FORCE_BIPOLAR>>

\* variant: the energy words are looked for in the normalized name
ToolUsesEnergyNormalized(t) ==
  LET n == norm(t)
  IN IF n.raised THEN Raise
     ELSE Return(\E k \in {K_MONOPOLAR, K_BIPOLAR, K_VESSEL_SEALER, K_CAUTERY,
                           K_FORCE_BIPOLAR} : Contains(n.value, k))

\* line 35: any(k in (t or "") for k in [...]) for one element t of tools.
\* For a str it is a substring test, for a list a membership test, and for
\* an int `in` raises TypeError.
ToolUsesEnergy(t) ==
  LET s == Or(t, Str(<<>>))
  IN CASE s.t = "str" ->
            Return(\E n \in 1..Len(ENERGY_KEYS) : Contains(s.v, ENERGY_KEYS[n]))
       [] s.t = "list" ->
            Return(\E n \in 1..Len(ENERGY_KEYS) : InSeq(Str(ENERGY_KEYS[n]), s.v))
       [] OTHER -> Raise

\* lines 34-38: the outer any(), which stops at the first tool that matches
RECURSIVE AnyEnergy(_, _)
AnyEnergy(ts, k) ==
  IF k > Len(ts) THEN Return(FALSE)
  ELSE LET e == ToolUsesEnergy(ts[k])
       IN IF e.raised THEN Raise
          ELSE IF e.value THEN Return(TRUE)
          ELSE AnyEnergy(ts, k + 1)

uses_energy(tools) ==
  IF ~Iterable(tools) THEN Raise ELSE AnyEnergy(Items(tools), 1)

\* line 45: the longest visibility question, in words
MaxQuestionWords == 20

\* variant: the fallback is taken from 20 words on
VisibilityQuestionAtLimit(gt) ==
  IF WordCount(Q1_PREFIX \o gt \o <<"?">>) >= 20 THEN Q1_FALLBACK
  ELSE Q1_PREFIX \o gt \o <<"?">>

\* lines 44-46
VisibilityQuestion(gt) ==
  LET q1 == Q1_PREFIX \o gt \o <<"?">>
  IN IF WordCount(q1) > MaxQuestionWords THEN Q1_FALLBACK ELSE q1

QA(q, a) == [question |-> q, answers |-> a]

\* lines 43-64
Pair1(tools, gt, tshort) ==
  IF Truthy(tools)
  THEN QA(VisibilityQuestion(gt),
          <<A1_INCLUDES \o tshort \o <<".">>,
            A1_VISIBLE \o tshort \o <<".">>,
            A1_PRESENT \o tshort \o <<".">>,
            A1_TOOLS_INCLUDE \o tshort \o <<".">>,
            A1_SEEN_HERE \o tshort \o <<".">> >>)
  ELSE QA(Q1_NO_TOOLS, <<A1_NONE_1, A1_NONE_2, A1_NONE_3, A1_NONE_4, A1_NONE_5>>)

\* variant: the negative set lacks its last answer
Pair2FourNegatives(energy) ==
  IF energy
  THEN [question |-> Q2, answers |-> <<A2_YES_1, A2_YES_2, A2_YES_3, A2_YES_4, A2_YES_5>>]
  ELSE [question |-> Q2, answers |-> <<A2_NO_1, A2_NO_2, A2_NO_3, A2_NO_4>>]

\* lines 67-84
Pair2(energy) ==
  IF energy
  THEN QA(Q2, <<A2_YES_1, A2_YES_2, A2_YES_3, A2_YES_4, A2_YES_5>>)
  ELSE QA(Q2, <<A2_NO_1, A2_NO_2, A2_NO_3, A2_NO_4, A2_NO_5>>)

\* lines 87-96
Pair3(gt) ==
  LET gt_short == IF gt # <<>> THEN gt ELSE GT_DEFAULT
  IN QA(Q3,
        <<gt_short \o <<".">>,
          gt_short \o A3_TASK,
          A3_FOCUS \o gt_short \o <<".">>,
          gt_short \o A3_PRACTICED,
          A3_OBJECTIVE \o gt_short \o <<".">> >>)

\* line 31: entry.get("tools", []) or []
ToolsOf(entry) == Or(Get(entry, "tools", List(<<>>)), List(<<>>))

\* line 32: norm(entry.get("groundtruth_taskname", "")).strip() or "the labeled task"
GroundTruth(entry) ==
  LET n == norm(Get(entry, "groundtruth_taskname", Str(<<>>)))
  IN IF n.raised THEN Raise
     ELSE Return(IF strip(n.value) # <<>> THEN strip(n.value) ELSE GT_DEFAULT)

build_qa_pairs(entry) ==
  LET tools == ToolsOf(entry)
      gt == GroundTruth(entry)
  IN IF gt.raised THEN Raise
     ELSE LET e == uses_energy(tools)
          IN IF e.raised THEN Raise
             ELSE LET tshort == IF Truthy(tools) THEN short_tools_text(tools)
                                ELSE Return(<<>>)
                  IN IF tshort.raised THEN Raise
                     ELSE Return(<<Pair1(tools, gt.value, tshort.value),
                                   Pair2(e.value),
                                   Pair3(gt.value)>>)

(***************************************************************************)
(* main (lines 101-138).                                                   *)
(***************************************************************************)
\* code point order of the characters used in paths
Ord(c) == CASE c = "0" -> 48 [] c = "1" -> 49 [] c = "2" -> 50

\* a < b for Python strings: lexicographic by code point
RECURSIVE StrLess(_, _)
StrLess(a, b) ==
  IF b = <<>> THEN FALSE
  ELSE IF a = <<>> THEN TRUE
  ELSE IF Ord(Head(a)) # Ord(Head(b)) THEN Ord(Head(a)) < Ord(Head(b))
  ELSE StrLess(Tail(a), Tail(b))

\* insert x into the sorted list s
RECURSIVE Insert(_, _)
Insert(x, s) ==
  IF s = <<>> THEN <<x>>
  ELSE IF StrLess(x, Head(s)) THEN <<x>> \o s
  ELSE <<Head(s)>> \o Insert(x, Tail(s))

\* line 103: sorted(...)
RECURSIVE sorted(_)
sorted(s) == IF s = <<>> THEN <<>> ELSE Insert(Head(s), sorted(Tail(s)))

\* variant: the type of the parsed data is not looked at
IsListUnchecked(content) == content.kind \in {"array", "object"}

\* line 113: isinstance(data, list)
IsList(content) == content.kind = "array"

\* lines 110-116: what one file adds to records and whether a warning is
\* printed.  open() fails for an unreadable file and json.load for invalid
\* JSON; both are caught by `except Exception`.
LoadOne(content) ==
  IF content.kind \in {"unreadable", "invalid"} THEN [warn |-> TRUE, add |-> <<>>]
  ELSE IF IsList(content) THEN [warn |-> FALSE, add |-> content.data]
  ELSE [warn |-> FALSE, add |-> <<>>]

\* lines 121-122: item.get exists only on a dict; on any other element of
\* the array it raises AttributeError
HasGet(item) == item.t = "dict"

\* line 123: case_id is None or index is None (dict.get gives None for a
\* missing key)
IsNone(x) == x = Absent \/ x = Null

\* variant: a truthiness test (`if not case_id or not index`)
SkippedWhenFalsy(item) ==
  \/ item.case_id \in {[t |-> "absent"], [t |-> "null"]}
  \/ item.index \in {[t |-> "absent"], [t |-> "null"]}
  \/ ~Truthy(item.case_id)
  \/ ~Truthy(item.index)

Skipped(item) == IsNone(item.case_id) \/ IsNone(item.index)

ID_SEP == <<"_", "i", "d">>
MP4 == <<".", "m", "p", "4">>

\* line 125: f"{case_id}_id{index}"
Key(item) == Format(item.case_id) \o ID_SEP \o Format(item.index)

\* line 126: f"{case_id}_id{index}.mp4"
VideoPath(item) == Format(item.case_id) \o ID_SEP \o Format(item.index) \o MP4

\* lines 128-132, given the pairs build_qa_pairs returned
Entry(item, pairs) ==
  [video_path |-> VideoPath(item),
   detected_objects |-> ToolsOf(item),
   qa_pairs |-> pairs]

HasKey(d, key) == \E k \in 1..Len(d) : d[k].key = key

\* variant: a key already in the mapping keeps its first value
SetItemFirstWins(d, key, value) ==
  IF \E k \in 1..Len(d) : d[k].key = key THEN d
  ELSE Append(d, [key |-> key, value |-> value])

\* line 133: out[key] = entry on an OrderedDict: a known key keeps its
\* position and takes the new value, a new key goes to the end
SetItem(d, key, value) ==
  IF HasKey(d, key)
  THEN [k \in 1..Len(d) |-> IF d[k].key = key THEN [key |-> key, value |-> value] ELSE d[k]]
  ELSE Append(d, [key |-> key, value |-> value])

\* the strings of a JSON value, in the order json.dump writes them
RECURSIVE ValueStrings(_)
ValueStrings(x) ==
  IF x.t = "str" THEN <<x.v>>
  ELSE IF x.t = "list" /\ x.v # <<>>
       THEN ValueStrings(Head(x.v)) \o ValueStrings(List(Tail(x.v)))
       ELSE <<>>

RECURSIVE PairStrings(_)
PairStrings(pairs) ==
  IF pairs = <<>> THEN <<>>
  ELSE <<Head(pairs).question>> \o Head(pairs).answers \o PairStrings(Tail(pairs))

\* the strings of one item of the mapping: key, video_path, detected
\* objects, then each question followed by its answers
ItemStrings(kv) ==
  <<kv.key, kv.value.video_path>> \o ValueStrings(kv.value.detected_objects)
    \o PairStrings(kv.value.qa_pairs)

\* lines 136-137: open(..., "w", encoding="utf-8") and json.dump(...,
\* ensure_ascii=False).  The document is written string by string; the
\* first string that UTF-8 cannot encode raises UnicodeEncodeError and what
\* was written before it stays in the file.  A document is [complete,
\* mapping |-> the items written whole, tail |-> the strings written of the
\* item after them].
Dump(d) ==
  LET bad == {k \in 1..Len(d) : \E n \in 1..Len(ItemStrings(d[k])) :
                                   ~Encodable(ItemStrings(d[k])[n])}
  IN IF bad = {} THEN [complete |-> TRUE, mapping |-> d, tail |-> <<>>]
     ELSE LET k == CHOOSE a \in bad : \A b \in bad : a <= b
              ss == ItemStrings(d[k])
              n == CHOOSE a \in 1..Len(ss) :
                     ~Encodable(ss[a]) /\ \A b \in 1..(a - 1) : Encodable(ss[b])
          IN [complete |-> FALSE, mapping |-> SubSeq(d, 1, k - 1),
              tail |-> SubSeq(ss, 1, n - 1)]

(***************************************************************************)
(* Inputs.                                                                 *)
(***************************************************************************)
SeqsUpTo(S, n) == UNION {[1..k -> S] : k \in 0..n}

\* a JSON object with the four fields main looks at
Rec(c, i, t, g) ==
  [t |-> "dict", case_id |-> c, index |-> i, tools |-> t, groundtruth_taskname |-> g]

\* tool-list elements given to short_tools_text: names that differ only by
\* underscore / space / surrounding blanks, names that normalize to nothing, null
ShortToolElems ==
  {Str(<<"a">>), Str(<<"b">>), Str(<<"c">>), Str(<<"a", "_", "b">>),
   Str(<<"a", " ", "b">>), Str(<<"_", "a", "\f">>), Str(<<"\r", "_">>), Null}

ShortToolLists == {List(s) : s \in SeqsUpTo(ShortToolElems, MaxToolsLen)}

\* tool-list elements given to build_qa_pairs, well shaped (str or null) ...
GoodToolElems ==
  {Str(T_BIPOLAR_FORCEPS), Str(T_NEEDLE_DRIVER), Str(T_MONOPOLAR_SCISSORS),
   Str(K_VESSEL_SEALER), Str(T_VESSEL_SEALER_SPACE), Str(T_BIPOLAR_UPPER),
   Str(K_CAUTERY), Str(<<>>)}

\* ... and of the wrong shape: numbers, null, a nested list
BadToolElems == {Null, Num(0), Num(5), List(<<Str(K_BIPOLAR)>>)}

\* the tools field: absent, null, a list, or not a list at all
ToolsValues ==
  {Absent, Null, Num(5), Str(T_BIPOLAR_UPPER)}
    \cup {List(s) : s \in SeqsUpTo(GoodToolElems \cup BadToolElems, MaxBuildTools)}

\* n words joined by sep
RECURSIVE Words(_, _)
Words(n, sep) ==
  IF n = 0 THEN <<>>
  ELSE IF n = 1 THEN <<"w">>
  ELSE Words(n - 1, sep) \o <<sep, "w">>

\* the groundtruth_taskname field: absent, null, numbers, blank names, and
\* names of 0..MaxWords words joined by underscores, spaces or carriage
\* returns
TaskValues ==
  {Absent, Null, Num(0), Num(5), Str(<<"_">>),
   Str(<<"\\xa0", "w", "_", "\n", "w", "\t">>)}
    \cup {Str(Words(n, sep)) : n \in 0..MaxWords, sep \in {"_", " ", "\r"}}

BuildEntries == {Rec(Absent, Absent, t, g) : t \in ToolsValues, g \in TaskValues}

\* a record whose sub-fields have the shape the data model gives them: tools
\* absent (or null) or a list of strings (or nulls), groundtruth_taskname
\* absent (or null) or a string
WellShaped(entry) ==
  /\ \/ entry.tools \in {Absent, Null}
     \/ /\ entry.tools.t = "list"
        /\ \A k \in 1..Len(entry.tools.v) : entry.tools.v[k].t \in {"str", "null"}
  /\ \/ entry.groundtruth_taskname \in {Absent, Null}
     \/ entry.groundtruth_taskname.t = "str"

\* elements of the arrays in the metadata files
RecA0Energy == Rec(Str(<<"a">>), Num(0), List(<<Str(T_BIPOLAR_FORCEPS)>>), Str(<<"x", "_", "y">>))
RecA0Plain == Rec(Str(<<"a">>), Num(0), List(<<Str(T_NEEDLE_DRIVER)>>), Absent)
RecNoCase == Rec(Absent, Num(1), List(<<Str(T_CLIP_APPLIER)>>), Absent)
RecNullIndex == Rec(Str(<<"a">>), Null, List(<<>>), Absent)
RecEmptyIds == Rec(Str(<<>>), Str(<<>>), List(<<>>), Str(<<"x">>))
RecBadTools == Rec(Str(<<"b">>), Num(10), List(<<Num(5)>>), Absent)
RecSurrogate == Rec(Str(<<"b">>), Num(1), List(<<Str(<<"x", "\\udc00">>)>>), Absent)

\* an element of the array that is not an object
ItemNumber == Num(5)

MetadataRecords ==
  {RecA0Energy, RecA0Plain, RecNoCase, RecNullIndex, RecEmptyIds, RecBadTools,
   RecSurrogate, ItemNumber}

\* what a matched file holds: a JSON array of records, JSON that is not an
\* array (an object, here with one member), text that is not JSON, or
\* nothing that can be read
Contents ==
  {[kind |-> "array", data |-> s] : s \in SeqsUpTo(MetadataRecords, MaxRecords)}
    \cup {[kind |-> "object", data |-> <<RecA0Energy>>],
          [kind |-> "invalid", data |-> <<>>],
          [kind |-> "unreadable", data |-> <<>>]}

\* paths the glob can match; as strings, "10" sorts before "2"
Paths == {<<"1", "0">>, <<"2">>}

\* the orders in which glob.glob may list the set S
Orders(S) ==
  {s \in [1..Cardinality(S) -> S] : \A a, b \in 1..Cardinality(S) : a # b => s[a] # s[b]}

(***************************************************************************)
(* The run of main.                                                        *)
(***************************************************************************)
Init ==
  /\ pc = "start"
  /\ candidates = <<>>
  /\ fs = <<>>
  /\ fi = 1
  /\ records = <<>>
  /\ ri = 1
  /\ out = <<>>
  /\ artifact = <<>>
  /\ warnings = <<>>
  /\ arg = Null
  /\ ret = Return(<<>>)

\* lines 103-108: glob, sort, and exit when nothing matched
Glob ==
  /\ pc = "start"
  /\ \E S \in SUBSET Paths :
       \E order \in Orders(S) : candidates' = sorted(order)
  /\ pc' = IF candidates' = <<>> THEN "exit" ELSE "load"
  /\ records' = <<>>
  /\ fi' = 1
  /\ UNCHANGED <<fs, ri, out, artifact, warnings, arg, ret>>

\* lines 109-116: one iteration of the load loop
LoadFile ==
  /\ pc = "load"
  /\ fi <= Len(candidates)
  /\ \E content \in Contents :
       LET l == LoadOne(content)
       IN /\ Len(records) + Len(l.add) <= MaxRecords
          /\ fs' = Append(fs, content)
          /\ records' = records \o l.add
          /\ warnings' = IF l.warn THEN Append(warnings, candidates[fi]) ELSE warnings
  /\ fi' = fi + 1
  /\ UNCHANGED <<pc, candidates, ri, out, artifact, arg, ret>>

\* line 119: the load loop is over
LoadDone ==
  /\ pc = "load"
  /\ fi > Len(candidates)
  /\ pc' = "assemble"
  /\ out' = <<>>
  /\ ri' = 1
  /\ UNCHANGED <<candidates, fs, fi, records, artifact, warnings, arg, ret>>

\* lines 120-133: one iteration of the assembly loop
AssembleRecord ==
  /\ pc = "assemble"
  /\ ri <= Len(records)
  /\ LET item == records[ri]
     IN IF ~HasGet(item)
        THEN /\ pc' = "raised"
             /\ UNCHANGED <<ri, out>>
        ELSE IF Skipped(item)
        THEN /\ ri' = ri + 1
             /\ UNCHANGED <<pc, out>>
        ELSE LET qa == build_qa_pairs(item)
             IN IF qa.raised
                THEN /\ pc' = "raised"
                     /\ UNCHANGED <<ri, out>>
                ELSE /\ out' = SetItem(out, Key(item), Entry(item, qa.value))
                     /\ ri' = ri + 1
                     /\ UNCHANGED pc
  /\ UNCHANGED <<candidates, fs, fi, records, artifact, warnings, arg, ret>>

\* lines 136-138: write the artifact; the run ends with an exception when
\* the dump stops at a string that cannot be encoded
Write ==
  /\ pc = "assemble"
  /\ ri > Len(records)
  /\ artifact' = Append(artifact, Dump(out))
  /\ pc' = IF Dump(out).complete THEN "done" ELSE "raised"
  /\ UNCHANGED <<candidates, fs, fi, records, ri, out, warnings, arg, ret>>

Next == Glob \/ LoadFile \/ LoadDone \/ AssembleRecord \/ Write

Spec == Init /\ [][Next]_vars

(***************************************************************************)
(* short_tools_text applied to a tool list.                                *)
(***************************************************************************)
Idle ==
  /\ candidates = <<>>
  /\ fs = <<>>
  /\ fi = 1
  /\ records = <<>>
  /\ ri = 1
  /\ out = <<>>
  /\ artifact = <<>>
  /\ warnings = <<>>

InitTools ==
  /\ pc = "call"
  /\ arg \in ShortToolLists
  /\ ret = Return(<<>>)
  /\ Idle

CallShortToolsText ==
  /\ pc = "call"
  /\ ret' = short_tools_text(arg)
  /\ pc' = "returned"
  /\ UNCHANGED <<candidates, fs, fi, records, ri, out, artifact, warnings, arg>>

SpecTools == InitTools /\ [][CallShortToolsText]_vars

(***************************************************************************)
(* build_qa_pairs applied to a record.                                     *)
(***************************************************************************)
InitBuild ==
  /\ pc = "call"
  /\ arg \in BuildEntries
  /\ ret = Return(<<>>)
  /\ Idle

CallBuildQAPairs ==
  /\ pc = "call"
  /\ ret' = build_qa_pairs(arg)
  /\ pc' = "returned"
  /\ UNCHANGED <<candidates, fs, fi, records, ri, out, artifact, warnings, arg>>

SpecBuild == InitBuild /\ [][CallBuildQAPairs]_vars

(***************************************************************************)
(* The dataset key (line 125) computed for two eligible records.           *)
(***************************************************************************)
KeyCaseIds ==
  {Str(<<"a">>), Str(<<"a", "_", "i", "d", "1">>), Str(<<>>), Str(<<"1">>), Num(1)}

KeyIndexes ==
  {Num(0), Num(2), Num(10), Str(<<"0">>), Str(<<"2">>), Str(<<"1", "_", "i", "d", "2">>),
   Str(<<>>)}

KeyRecords == {Rec(c, i, Absent, Absent) : c \in KeyCaseIds, i \in KeyIndexes}

InitKey ==
  /\ pc = "call"
  /\ arg \in KeyRecords \X KeyRecords
  /\ ret = Return(<<>>)
  /\ Idle

CallKey ==
  /\ pc = "call"
  /\ ret' = Return(<<Key(arg[1]), Key(arg[2])>>)
  /\ pc' = "returned"
  /\ UNCHANGED <<candidates, fs, fi, records, ri, out, artifact, warnings, arg>>

SpecKey == InitKey /\ [][CallKey]_vars

(***************************************************************************)
(* Properties.                                                             *)
(***************************************************************************)
A1_NONE == <<A1_NONE_1, A1_NONE_2, A1_NONE_3, A1_NONE_4, A1_NONE_5>>
A2_YES == <<A2_YES_1, A2_YES_2, A2_YES_3, A2_YES_4, A2_YES_5>>
A2_NO == <<A2_NO_1, A2_NO_2, A2_NO_3, A2_NO_4, A2_NO_5>>

Shape3x5(pairs) ==
  /\ Len(pairs) = 3
  /\ \A k \in 1..3 : Len(pairs[k].answers) = 5

StartsWith(s, prefix) ==
  Len(s) >= Len(prefix) /\ SubSeq(s, 1, Len(prefix)) = prefix

\* visibility first, energy usage second, training objective third
FixedOrder(pairs) ==
  /\ \/ pairs[1].question \in {Q1_NO_TOOLS, Q1_FALLBACK}
     \/ StartsWith(pairs[1].question, Q1_PREFIX)
  /\ pairs[2].question = Q2
  /\ pairs[3].question = Q3

\* C1: build_qa_pairs returns for every record of the data model (tools a
\* list of names, empty or absent; groundtruth_taskname a string, empty or
\* absent), and whatever it returns, for any record at all, is exactly 3
\* pairs in the order visibility, energy usage, training objective, each
\* with exactly 5 answers; so no entry with another shape can be inserted.
C1_ThreePairsFiveAnswers ==
  pc = "returned" =>
    /\ WellShaped(arg) => ~ret.raised
    /\ ~ret.raised => Shape3x5(ret.value) /\ FixedOrder(ret.value)

C1_Witness ==
  /\ pc = "returned"
  /\ arg.tools = List(<<Str(T_NEEDLE_DRIVER), Str(T_BIPOLAR_FORCEPS)>>)
  /\ arg.groundtruth_taskname = Absent
  /\ ~ret.raised
  /\ Shape3x5(ret.value)

\* C2: two eligible records whose (case_id, index) pairs differ get
\* different keys.
C2_KeysCollisionFree ==
  pc = "returned" =>
    (arg[1].case_id # arg[2].case_id \/ arg[1].index # arg[2].index
       => ret.value[1] # ret.value[2])

\* C3: build_qa_pairs never raises, whatever the shape of tools and
\* groundtruth_taskname.
C3_BuilderNeverRaises == pc = "returned" => ~ret.raised

\* the names a tool list holds: each non-null element, underscores turned
\* into spaces and surrounding blanks removed
NamesOf(ts) ==
  [k \in 1..Len(ts) |->
     IF ts[k].t = "str" THEN strip(ReplaceUnderscore(ts[k].v)) ELSE <<>>]

\* positions at which a non-empty name occurs for the first time
FirstOccurrences(n) ==
  {k \in 1..Len(n) : n[k] # <<>> /\ \A m \in 1..(k - 1) : n[m] # n[k]}

\* the i-th smallest element of a set of positions
Nth(S, i) == CHOOSE k \in S : Cardinality({m \in S : m < k}) = i - 1

ExpectedShortText(ts) ==
  LET n == NamesOf(ts)
      F == FirstOccurrences(n)
  IN CASE Cardinality(F) = 0 -> <<>>
       [] Cardinality(F) = 1 -> n[Nth(F, 1)]
       [] Cardinality(F) = 2 -> n[Nth(F, 1)] \o AND \o n[Nth(F, 2)]
       [] OTHER -> n[Nth(F, 1)] \o COMMA \o n[Nth(F, 2)] \o COMMA_AND \o n[Nth(F, 3)]

\* C8: short_tools_text returns the join of the first (at most three)
\* distinct non-empty normalized names in order of first occurrence: ""
\* for none, the name for one, "a and b" for two, "a, b, and c" for three
\* or more.
C8_ShortToolsText ==
  pc = "returned" => ~ret.raised /\ ret.value = ExpectedShortText(arg.v)

\* more than three distinct names, one of them given twice, once with an
\* underscore and once with a space
C8_Witness ==
  /\ pc = "returned"
  /\ Len(arg.v) = 5
  /\ Cardinality(FirstOccurrences(NamesOf(arg.v))) = 4
  /\ arg.v[1] = Str(<<"a", "_", "b">>)
  /\ arg.v[2] = Str(<<"a", " ", "b">>)
  /\ ret.value = <<"a", " ", "b", ",", " ", "a", ",", " ", "a", "n", "d", " ", "b">>

EnergyWords == {K_MONOPOLAR, K_BIPOLAR, K_VESSEL_SEALER, K_CAUTERY, K_FORCE_BIPOLAR}

\* some raw tool name of the record contains one of the energy words
NamesEnergyDevice(entry) ==
  /\ entry.tools \notin {Absent, Null}
  /\ \E k \in 1..Len(entry.tools.v) :
       /\ entry.tools.v[k].t = "str"
       /\ \E w \in EnergyWords : Contains(entry.tools.v[k].v, w)

\* C9: for every record of the data model, pair 2 has the fixed question,
\* and its answers are the five affirmative strings if some raw tool name
\* contains one of the five energy words (case-sensitively, as a
\* substring), and the five negative strings otherwise.
C9_EnergyPair ==
  pc = "returned" /\ WellShaped(arg) =>
    /\ ~ret.raised
    /\ ret.value[2].question = Q2
    /\ ret.value[2].answers = IF NamesEnergyDevice(arg) THEN A2_YES ELSE A2_NO

C9_Witness ==
  /\ pc = "returned"
  /\ arg.tools = List(<<Str(T_BIPOLAR_UPPER), Str(T_BIPOLAR_FORCEPS)>>)
  /\ ~ret.raised
  /\ ret.value[2].answers = A2_YES

\* the normalized task name of a record, and the text put in the question
TaskName(entry) ==
  IF entry.groundtruth_taskname \in {Absent, Null} THEN <<>>
  ELSE ReplaceUnderscore(entry.groundtruth_taskname.v)

TaskText(entry) ==
  IF WordCount(TaskName(entry)) = 0 THEN GT_DEFAULT ELSE strip(TaskName(entry))

HasTools(entry) == entry.tools \notin {Absent, Null} /\ entry.tools.v # <<>>

\* C10: for a record of the data model with a non-empty tools list, the
\* visibility question is "Which instruments are visible in this clip
\* while performing {groundtruth}?" when the normalized task name has at
\* most 11 words (the question at most 20) and the fixed fallback when it
\* has more; with an empty or absent tools list it is the fixed "Are any
\* robotic instruments listed ..." question with the five negative answers,
\* whatever the task name.
C10_VisibilityQuestion ==
  pc = "returned" /\ WellShaped(arg) =>
    /\ ~ret.raised
    /\ IF HasTools(arg)
       THEN LET q == Q1_PREFIX \o TaskText(arg) \o <<"?">>
            IN /\ WordCount(q) > 20 <=> WordCount(TaskName(arg)) > 11
               /\ ret.value[1].question =
                    IF WordCount(TaskName(arg)) > 11 THEN Q1_FALLBACK ELSE q
       ELSE /\ ret.value[1].question = Q1_NO_TOOLS
            /\ ret.value[1].answers = A1_NONE

C10_Witness ==
  /\ pc = "returned"
  /\ arg.tools = List(<<Str(T_NEEDLE_DRIVER)>>)
  /\ arg.groundtruth_taskname = Str(Words(12, "_"))
  /\ ~ret.raised
  /\ ret.value[1].question = Q1_FALLBACK

IdsPresent(item) ==
  /\ item.t = "dict"
  /\ item.case_id \notin {Absent, Null}
  /\ item.index \notin {Absent, Null}

\* C4: of the records the assembly loop has gone through, exactly those
\* with both case_id and index present and not None have an entry under
\* their key; the others are passed over without a trace, and the loop
\* never stops at one of them: it stops only at an element that is not an
\* object or at a record with ids whose sub-fields are malformed.  Index 0
\* and empty-string ids are present.
C4_EntryIffIdsPresent ==
  /\ pc \in {"assemble", "done"} =>
       /\ \A m \in 1..(ri - 1) :
            IdsPresent(records[m]) => HasKey(out, Key(records[m]))
       /\ \A k \in 1..Len(out) :
            \E m \in 1..(ri - 1) :
              IdsPresent(records[m]) /\ Key(records[m]) = out[k].key
  /\ pc = "raised" /\ ri <= Len(records) =>
       \/ records[ri].t # "dict"
       \/ IdsPresent(records[ri]) /\ ~WellShaped(records[ri])

\* a record without case_id, one with index 0 and one with empty ids have
\* been processed
C4_Witness ==
  /\ pc = "assemble"
  /\ ri = 4
  /\ records = <<RecNoCase, RecA0Energy, RecEmptyIds>>
  /\ Len(out) = 2
  /\ out[1].key = <<"a", "_", "i", "d", "0">>
  /\ out[2].key = <<"_", "i", "d">>

IdsPresentTest(item) == IdsPresent(item)

EligibleRecords == SelectSeq(records, IdsPresentTest)

FirstWith(key, e) ==
  CHOOSE m \in 1..Len(e) : Key(e[m]) = key /\ \A n \in 1..(m - 1) : Key(e[n]) # key

LastWith(key, e) ==
  CHOOSE m \in 1..Len(e) : Key(e[m]) = key /\ \A n \in (m + 1)..Len(e) : Key(e[n]) # key

\* C5: once every record is assembled, the mapping holds exactly one entry
\* per distinct key of the eligible records, the keys stand in the order of
\* their first insertion, each value is the entry built from the last
\* eligible record with that key, and what is serialized is that mapping
\* in that order (all of it when the run is done).
C5_LastWriteWinsFirstOrder ==
  pc \in {"assemble", "done", "raised"} /\ ri > Len(records) =>
    LET e == EligibleRecords
    IN /\ {out[k].key : k \in 1..Len(out)} = {Key(e[m]) : m \in 1..Len(e)}
       /\ \A a, b \in 1..Len(out) :
            a < b => FirstWith(out[a].key, e) < FirstWith(out[b].key, e)
       /\ \A k \in 1..Len(out) :
            LET last == e[LastWith(out[k].key, e)]
            IN out[k].value = Entry(last, build_qa_pairs(last).value)
       /\ \A n \in 1..Len(artifact) :
            artifact[n].mapping = SubSeq(out, 1, Len(artifact[n].mapping))
       /\ pc = "done" => Len(artifact) = 1 /\ artifact[1].mapping = out

\* key a_id0 is inserted first, overwritten last, and stays first
C5_Witness ==
  /\ pc = "done"
  /\ records = <<RecA0Energy, RecEmptyIds, RecA0Plain>>
  /\ Len(out) = 2
  /\ out[1].key = <<"a", "_", "i", "d", "0">>
  /\ out[1].value.detected_objects = List(<<Str(T_NEEDLE_DRIVER)>>)

RECURSIVE ConcatArrays(_)
ConcatArrays(files) ==
  IF files = <<>> THEN <<>>
  ELSE (IF Head(files).kind = "array" THEN Head(files).data ELSE <<>>)
         \o ConcatArrays(Tail(files))

RECURSIVE FailedPaths(_, _)
FailedPaths(paths, files) ==
  IF files = <<>> THEN <<>>
  ELSE (IF Head(files).kind \in {"invalid", "unreadable"} THEN <<Head(paths)>> ELSE <<>>)
         \o FailedPaths(Tail(paths), Tail(files))

\* C6: the candidates are in sorted order, every one of them is read, the
\* merged records are the concatenation, in that order, of the arrays of
\* the files that parsed as a JSON array, and a file that cannot be read or
\* parsed or is not an array adds nothing, is warned about when it failed,
\* and does not stop the run.
C6_LoadIsolatedOrdered ==
  /\ candidates \in {<<>>, <<<<"1", "0">>>>, <<<<"2">>>>, <<<<"1", "0">>, <<"2">>>>}
  /\ records = ConcatArrays(fs)
  /\ warnings = FailedPaths(candidates, fs)
  /\ pc = "load" => Len(fs) = fi - 1
  /\ pc \in {"assemble", "raised", "done"} => Len(fs) = Len(candidates)

\* the first file is not JSON, the second is an array of two records
C6_Witness ==
  /\ pc = "assemble"
  /\ candidates = <<<<"1", "0">>, <<"2">>>>
  /\ fs[1].kind = "invalid"
  /\ fs[2] = [kind |-> "array", data |-> <<RecA0Plain, RecA0Energy>>]
  /\ records = <<RecA0Plain, RecA0Energy>>
  /\ warnings = <<<<"1", "0">>>>

\* C7: the output is all or nothing.  The artifact is written at most
\* once, only when every file has been loaded and every record assembled,
\* and it is then the complete mapping; a run that found no file exits,
\* and a run that exited or raised has written nothing.
C7_AllOrNothing ==
  /\ Len(artifact) <= 1
  /\ artifact # <<>> =>
       /\ pc = "done"
       /\ fi > Len(candidates)
       /\ ri > Len(records)
       /\ artifact = <<[complete |-> TRUE, mapping |-> out, tail |-> <<>>]>>
  /\ pc \in {"exit", "raised"} => artifact = <<>>
  /\ pc = "exit" <=> (pc # "start" /\ candidates = <<>>)
  /\ pc = "done" => Len(artifact) = 1

====
